---- MODULE Spec2Model ----
(***************************************************************************)
(* Model of the firehose-sui console reader (codec/console_reader.go and   *)
(* codec/console_stats.go): the line protocol state machine that turns the *)
(* node's "FIRE ..." log lines into blocks, one per ReadBlock call.        *)
(*                                                                         *)
(* A line is a sequence of one-character strings, so that the prefix test, *)
(* the slice line[len(LogPrefix)+1:] and strings.Split are computed on the *)
(* text as the code computes them.                                         *)
(***************************************************************************)
EXTENDS Integers, Sequences, FiniteSets, TLC

(***************************************************************************)
(* Bounds of the model.                                                    *)
(***************************************************************************)
\* most lines the reader accepts into one block (its BLOCK_START included, its
\* BLOCK_END not)
MaxCycle == 3
\* number of BLOCK_END lines that pass validation before the node falls silent
MaxBlocks == 1
\* the most calls of StopPeriodicLogToZap on one stats object
MaxStops == 3
\* the most blocks completed while the periodic reporter is watched
MaxCompleted == 2

\* a Go pointer is a sequence of length at most one: Nil, or Ptr(v)
Nil == <<>>
Ptr(v) == <<v>>
Deref(p) == p[1]

(***************************************************************************)
(* The protocol words (console_reader.go, const block).                    *)
(***************************************************************************)
LogPrefix == <<"F", "I", "R", "E">>
LogInit == <<"I", "N", "I", "T">>
LogCheckpoint == <<"C", "H", "E", "C", "K", "P", "O", "I", "N", "T">>
LogBlockStart == <<"B", "L", "O", "C", "K", "_", "S", "T", "A", "R", "T">>
LogTrx == <<"T", "R", "X">>
LogObjChange == <<"O", "B", "J", "_", "C", "H", "A", "N", "G", "E">>
LogEvent == <<"E", "V", "T">>
LogDisplayUpdate == <<"D", "S", "P", "_", "U", "P", "D", "A", "T", "E">>
LogBlockEnd == <<"B", "L", "O", "C", "K", "_", "E", "N", "D">>

(***************************************************************************)
(* Library functions the reader calls, computed on the text.               *)
(***************************************************************************)
\* mutant: the prefix compared without regard to case (strings.EqualFold)
FoldChar(c) ==
    IF c = "f" THEN "F" ELSE IF c = "i" THEN "I"
    ELSE IF c = "r" THEN "R" ELSE IF c = "e" THEN "E" ELSE c

HasPrefix_EqualFold(s, p) ==
    /\ Len(s) >= Len(p)
    /\ \A k \in 1..Len(p) : FoldChar(s[k]) = FoldChar(p[k])

\* strings.HasPrefix
HasPrefix(s, p) == Len(s) >= Len(p) /\ SubSeq(s, 1, Len(p)) = p

\* the Go slice s[n:]; the caller checks n <= len(s), Go panics otherwise
SliceFrom(s, n) == SubSeq(s, n + 1, Len(s))

\* strings.Split(s, sep) for a one-character separator
RECURSIVE Split(_, _)
Split(s, sep) ==
    IF \E i \in 1..Len(s) : s[i] = sep
    THEN LET i == CHOOSE k \in 1..Len(s) :
                      s[k] = sep /\ \A j \in 1..(k - 1) : s[j] # sep
         IN  <<SubSeq(s, 1, i - 1)>> \o Split(SubSeq(s, i + 1, Len(s)), sep)
    ELSE <<s>>

Digits == <<"0", "1", "2", "3", "4", "5", "6", "7", "8", "9">>
IsDigit(c) == \E d \in 1..10 : Digits[d] = c
DigitVal(c) == (CHOOSE d \in 1..10 : Digits[d] = c) - 1

RECURSIVE DecimalVal(_)
DecimalVal(s) ==
    IF s = <<>> THEN 0
    ELSE 10 * DecimalVal(SubSeq(s, 1, Len(s) - 1)) + DigitVal(s[Len(s)])

\* strconv.ParseUint(s, 10, 64): ok is FALSE for the empty string and for any
\* character that is not a digit (the numbers of Lines have one digit, so the
\* 64-bit range check never fails)
ParseUint(s) ==
    IF s # <<>> /\ (\A i \in 1..Len(s) : IsDigit(s[i]))
    THEN [ok |-> TRUE, val |-> DecimalVal(s)]
    ELSE [ok |-> FALSE, val |-> 0]

B64Alphabet ==
    <<"A", "B", "C", "D", "E", "F", "G", "H", "I", "J", "K", "L", "M",
      "N", "O", "P", "Q", "R", "S", "T", "U", "V", "W", "X", "Y", "Z",
      "a", "b", "c", "d", "e", "f", "g", "h", "i", "j", "k", "l", "m",
      "n", "o", "p", "q", "r", "s", "t", "u", "v", "w", "x", "y", "z",
      "0", "1", "2", "3", "4", "5", "6", "7", "8", "9", "+", "/">>
IsB64(c) == \E i \in 1..64 : B64Alphabet[i] = c
B64Val(c) == (CHOOSE i \in 1..64 : B64Alphabet[i] = c) - 1

\* one quantum of four characters, the last two possibly padding
B64Quantum(q) ==
    LET n == IF q[3] = "=" THEN 2 ELSE IF q[4] = "=" THEN 3 ELSE 4
        v(i) == IF i <= n THEN B64Val(q[i]) ELSE 0
        bits == ((v(1) * 64 + v(2)) * 64 + v(3)) * 64 + v(4)
        all == <<bits \div 65536, (bits \div 256) % 256, bits % 256>>
    IN  SubSeq(all, 1, n - 1)

QuantumOk(q, last) ==
    /\ IsB64(q[1]) /\ IsB64(q[2])
    /\ \/ IsB64(q[3]) /\ IsB64(q[4])
       \/ last /\ IsB64(q[3]) /\ q[4] = "="
       \/ last /\ q[3] = "=" /\ q[4] = "="

RECURSIVE B64Bytes(_)
B64Bytes(s) ==
    IF s = <<>> THEN <<>>
    ELSE B64Quantum(SubSeq(s, 1, 4)) \o B64Bytes(SubSeq(s, 5, Len(s)))

\* base64.StdEncoding.DecodeString: padded quanta of four characters
Base64Decode(s) ==
    IF /\ Len(s) % 4 = 0
       /\ \A k \in 0..((Len(s) \div 4) - 1) :
              QuantumOk(SubSeq(s, 4 * k + 1, 4 * k + 4), 4 * k + 4 = Len(s))
    THEN [ok |-> TRUE, bytes |-> B64Bytes(s)]
    ELSE [ok |-> FALSE, bytes |-> <<>>]

\* proto.Unmarshal on messages whose fields are one-byte varints: the bytes
\* are (tag, value) pairs, tag = 8 * field number, value below 128; a message
\* is the function from its field numbers to their values (last one wins)
ProtoOk(bytes) ==
    /\ Len(bytes) % 2 = 0
    /\ \A k \in 1..(Len(bytes) \div 2) :
          /\ bytes[2 * k - 1] % 8 = 0
          /\ bytes[2 * k - 1] \in 8..127
          /\ bytes[2 * k] < 128

ProtoFields(bytes) == {bytes[2 * k - 1] \div 8 : k \in 1..(Len(bytes) \div 2)}

ProtoUnmarshal(bytes) ==
    IF ProtoOk(bytes)
    THEN [ok |-> TRUE,
          msg |-> [f \in ProtoFields(bytes) |->
                     LET k == CHOOSE j \in 1..(Len(bytes) \div 2) :
                                  /\ bytes[2 * j - 1] \div 8 = f
                                  /\ \A i \in (j + 1)..(Len(bytes) \div 2) :
                                         bytes[2 * i - 1] \div 8 # f
                     IN  bytes[2 * k]]]
    ELSE [ok |-> FALSE, msg |-> <<>>]

\* a varint field of a decoded message, 0 when absent (proto3 default)
Field(msg, f) == IF f \in DOMAIN msg THEN msg[f] ELSE 0


(***************************************************************************)
(* The lines the node may print.                                           *)
(***************************************************************************)
Sp == " "

RECURSIVE Join(_)
Join(words) ==
    IF Len(words) = 1 THEN words[1]
    ELSE words[1] \o <<Sp>> \o Join(Tail(words))

FireLine(words) == LogPrefix \o <<Sp>> \o Join(words)

\* base64 payloads: "CAE=" and "CAI=" are the bytes 08 01 and 08 02 (field 1),
\* "CAAQBQ==" and "CAEQBg==" are 08 00 10 05 and 08 01 10 06 (fields 1, 2),
\* "CA==" is the single byte 08 (a truncated field), "CAE" is not base64
PayA == <<"C", "A", "E", "=">>
PayB == <<"C", "A", "I", "=">>
CkptA == <<"C", "A", "A", "Q", "B", "Q", "=", "=">>
CkptB == <<"C", "A", "E", "Q", "B", "g", "=", "=">>
BadProto == <<"C", "A", "=", "=">>
BadB64 == <<"C", "A", "E">>

Heights == {<<"0">>, <<"1">>}
StartHeights == {<<"1">>}

InitLines ==
    { FireLine(<<LogInit, <<"c">>, <<"v">>, <<"f">>, <<"0">>, <<"2">>, <<"X">>>>),
      FireLine(<<LogInit, <<"c">>, <<"v">>, <<"f">>, <<"0">>, <<"2">>, <<"e">>, <<"X">>>>),
      FireLine(<<LogInit, <<"c">>, <<"v">>, <<"f">>, <<"0">>, <<"2">>>>),
      FireLine(<<LogInit, <<"c">>, <<"v">>, <<"f">>, <<"1">>, <<"2">>, <<"X">>>>),
      FireLine(<<LogInit, <<"c">>, <<"v">>, <<"f">>, <<"x">>, <<"2">>, <<"X">>>>),
      FireLine(<<LogInit, <<"c">>, <<"v">>, <<"f">>, <<"0">>, <<"x">>, <<"X">>>>),
      FireLine(<<LogInit, <<"c">>, <<"v">>, <<"f">>, <<"1">>, <<"x">>, <<"X">>>>),
      FireLine(<<LogInit, <<"c">>, <<"v">>, <<"f">>, <<"0">>, <<"2">>, <<"e">>, <<"X">>, <<"y">>>>) }

AccumulationCommands ==
    {LogCheckpoint, LogTrx, LogObjChange, LogEvent, LogDisplayUpdate}

BlockLines ==
    {FireLine(<<LogBlockStart, h>>) : h \in StartHeights}
    \cup {FireLine(<<LogBlockEnd, h>>) : h \in Heights}
    \cup {FireLine(<<LogCheckpoint, p>>) : p \in {CkptA, CkptB}}
    \cup {FireLine(<<LogTrx, p>>) : p \in {PayA, PayB}}
    \cup {FireLine(<<c, PayA>>) : c \in {LogObjChange, LogEvent, LogDisplayUpdate}}

RejectedLines ==
    { FireLine(<<LogBlockStart, <<"x">>>>),
      FireLine(<<LogBlockEnd, <<"x">>>>),
      FireLine(<<LogBlockEnd, <<"1">>, <<"1">>>>),
      FireLine(<<LogTrx, PayA, PayB>>),
      FireLine(<<LogTrx, BadB64>>),
      FireLine(<<LogTrx, BadProto>>),
      FireLine(<<LogCheckpoint, BadProto>>) }

OtherLines ==
    { <<"f", "i", "r", "e", Sp, "T", "R", "X", Sp, "C", "A", "E", "=">>,
      FireLine(<<<<"P", "I", "N", "G">>, <<"1">>>>),
      LogPrefix,
      LogPrefix \o <<Sp>>,
      LogPrefix \o <<"X">>,
      FireLine(<<LogTrx>>),
      FireLine(<<LogInit>>) }

Lines == InitLines \cup BlockLines \cup RejectedLines \cup OtherLines

(***************************************************************************)
(* State.                                                                  *)
(***************************************************************************)
VARIABLES
    closed,                 \* the lines channel has been closed by its producer
    line,                   \* the line the loop of next() took last
    pc,                     \* "idle", "reading" (inside ReadBlock) or "panicked"
    out,                    \* what the last ReadBlock call returned
    initRead,               \* ConsoleReader.initRead
    chainID,                \* ConsoleReader.chainID
    activeBlock,            \* ConsoleReader.activeBlock (a pointer)
    activeBlockStartTime,   \* ConsoleReader.activeBlockStartTime: "zero" or "set"
    stats,                  \* ConsoleReader.stats
    log,                    \* what the last step wrote to ConsoleReader.logger
    cycle,                  \* the accepted lines of the block being assembled
    audit,                  \* whether the errors ReadBlock returns are kept on
                            \* record (in failed)
    failed,                 \* ReadBlock has returned an error on this reader
    cancelPeriodicLogger,   \* consoleReaderStats.cancelPeriodicLogger (a pointer)
    ctxDone,                \* the reporter's context has been cancelled
    goroutine,              \* the reporter goroutine: where it is, what it has read
    snapshot,               \* the last-block fields of the last snapshot logged
    statsWrite,             \* the assignment to stats.lastBlock in progress
    stopCalls               \* calls of StopPeriodicLogToZap so far

\* the state of the periodic reporter of console_stats.go
reporterVars ==
    <<cancelPeriodicLogger, ctxDone, goroutine, snapshot, statsWrite, stopCalls>>

vars == <<closed, line, pc, out, initRead, chainID, activeBlock,
          activeBlockStartTime, stats, log, cycle, audit, failed,
          reporterVars>>

reader == <<initRead, chainID, activeBlock, activeBlockStartTime, stats>>

\* &pbsui.CheckpointData{}
EmptyCheckpointData ==
    [Checkpoint |-> Nil, Transactions |-> <<>>, ObjectChange |-> Nil,
     Events |-> <<>>, DisplayUpdates |-> <<>>]

\* pbbstream.BlockRef{}
EmptyBlockRef == [Num |-> 0, Id |-> 0]

\* newConsoleReaderStats()
newConsoleReaderStats ==
    [lastBlock |-> EmptyBlockRef, blockRate |-> 0, transactionRate |-> 0]

NoResult == [kind |-> "none", err |-> "", block |-> Nil]
ErrResult(e) == [kind |-> "error", err |-> e, block |-> Nil]
EOFResult == [kind |-> "eof", err |-> "", block |-> Nil]
BlockResult(b) == [kind |-> "block", err |-> "", block |-> Ptr(b)]

\* the reporter goroutine as go func() leaves it: in the select, nothing read
Waiting == [pc |-> "select", num |-> 0]

\* no goroutine has been started
NoGoroutine == [pc |-> "none", num |-> 0]

\* l.stats.StartPeriodicLogToZap(context.Background(), logger, 30*time.Second)
\* as NewConsoleReader leaves the reporter
StartedReporter ==
    /\ cancelPeriodicLogger = Ptr("cancel")
    /\ ctxDone = FALSE
    /\ goroutine = Waiting
    /\ snapshot = Nil
    /\ statsWrite = Nil
    /\ stopCalls = 0

\* the fields of &ConsoleReader{...} and what the caller has seen of it
ReaderInit ==
    /\ closed = FALSE
    /\ line = <<>>
    /\ pc = "idle"
    /\ out = NoResult
    /\ initRead = FALSE
    /\ chainID = <<>>
    /\ activeBlock = Nil
    /\ activeBlockStartTime = "zero"
    /\ stats = newConsoleReaderStats
    /\ log = ""
    /\ cycle = <<>>
    /\ failed = FALSE

\* NewConsoleReader
Init ==
    /\ ReaderInit
    /\ audit = FALSE
    /\ StartedReporter


(***************************************************************************)
(* Accessors of pbsui.CheckpointData.  They are defined in the pb package; *)
(* the reader shows which field carries the height (the previous active    *)
(* block's height it logs is Checkpoint.SequenceNumber).  Whether they      *)
(* tolerate a block with no checkpoint is not fixed here: every call site   *)
(* takes nilSafe, and the actions draw it from BOOLEAN.                     *)
(***************************************************************************)
GetFirehoseBlockNumber(b) ==
    IF b.Checkpoint = Nil THEN 0 ELSE Field(Deref(b.Checkpoint), 1)

GetFirehoseBlockID(b) ==
    IF b.Checkpoint = Nil THEN 0 ELSE Field(Deref(b.Checkpoint), 2)

AsRef(b) == [Num |-> GetFirehoseBlockNumber(b), Id |-> GetFirehoseBlockID(b)]

AccessorPanics(b, nilSafe) == b.Checkpoint = Nil /\ ~nilSafe

\* firecore.BlockEncoder.Encode on BlockEnveloppe{Block: block}
Encode(block) == [Number |-> GetFirehoseBlockNumber(block), Payload |-> block]

(***************************************************************************)
(* The line handlers.  Each returns what it leaves behind: err (the error  *)
(* class, "" for none), panic, and the fields it may assign.               *)
(***************************************************************************)
validateChunk(params, count) == Len(params) = count

\* mutant: any count from the smallest valid one on is taken
validateVariableChunk_AtLeast(params, counts) ==
    \E c \in counts : Len(params) >= c

validateVariableChunk(params, counts) == Len(params) \in counts

\* mutant: only a major version above 1 is refused
readInit_MajorAtMostOne(params, oldChainID) ==
    LET major == ParseUint(params[4])
        minor == ParseUint(params[4])
        keep == [initRead |-> FALSE, chainID |-> oldChainID]
    IN  IF ~validateVariableChunk(params, {6, 7})
        THEN [err |-> "LineFormatError"] @@ keep
        ELSE IF ~major.ok THEN [err |-> "FieldParseError"] @@ keep
        ELSE IF ~minor.ok THEN [err |-> "FieldParseError"] @@ keep
        ELSE IF major.val > 1 THEN [err |-> "ProtocolVersionError"] @@ keep
        ELSE [err |-> "",
              initRead |-> TRUE,
              chainID |-> IF Len(params) = 6 THEN params[6] ELSE params[7]]

readInit(params, oldChainID) ==
    LET major == ParseUint(params[4])
        minor == ParseUint(params[4])
        keep == [initRead |-> FALSE, chainID |-> oldChainID]
    IN  IF ~validateVariableChunk(params, {6, 7})
        THEN [err |-> "LineFormatError"] @@ keep
        ELSE IF ~major.ok THEN [err |-> "FieldParseError"] @@ keep
        ELSE IF ~minor.ok THEN [err |-> "FieldParseError"] @@ keep
        ELSE IF major.val # 0 THEN [err |-> "ProtocolVersionError"] @@ keep
        ELSE [err |-> "",
              initRead |-> TRUE,
              chainID |-> IF Len(params) = 6 THEN params[6] ELSE params[7]]

\* mutant: an accumulator is allocated only when none is active
readBlockStart_KeepsActive(params, ab, startTime) ==
    LET height == ParseUint(params[1])
        keep == [panic |-> FALSE, log |-> "", activeBlock |-> ab,
                 activeBlockStartTime |-> startTime]
    IN  IF ~validateChunk(params, 1) THEN [err |-> "LineFormatError"] @@ keep
        ELSE IF ~height.ok THEN [err |-> "FieldParseError"] @@ keep
        ELSE IF ab # Nil /\ Deref(ab).Checkpoint = Nil
        THEN [err |-> "", panic |-> TRUE, log |-> "", activeBlock |-> ab,
              activeBlockStartTime |-> startTime]
        ELSE [err |-> "", panic |-> FALSE,
              log |-> IF ab # Nil
                      THEN "received BLOCK_START while one is already active, resetting active block and starting over"
                      ELSE "",
              activeBlock |-> IF ab # Nil THEN ab ELSE Ptr(EmptyCheckpointData),
              activeBlockStartTime |-> "set"]

readBlockStart(params, ab, startTime) ==
    LET height == ParseUint(params[1])
        keep == [panic |-> FALSE, log |-> "", activeBlock |-> ab,
                 activeBlockStartTime |-> startTime]
    IN  IF ~validateChunk(params, 1) THEN [err |-> "LineFormatError"] @@ keep
        ELSE IF ~height.ok THEN [err |-> "FieldParseError"] @@ keep
        ELSE IF ab # Nil /\ Deref(ab).Checkpoint = Nil
        THEN [err |-> "", panic |-> TRUE, log |-> "", activeBlock |-> ab,
              activeBlockStartTime |-> startTime]
        ELSE [err |-> "", panic |-> FALSE,
              log |-> IF ab # Nil
                      THEN "received BLOCK_START while one is already active, resetting active block and starting over"
                      ELSE "",
              activeBlock |-> Ptr(EmptyCheckpointData),
              activeBlockStartTime |-> "set"]

\* mutant: the payload is decoded before the active block is looked at
validate_DecodesFirst(params, ab, nilSafe) ==
    LET dec == Base64Decode(params[1])
        none == [panic |-> FALSE, bytes |-> <<>>]
    IN  IF ~validateChunk(params, 1) THEN [err |-> "LineFormatError"] @@ none
        ELSE IF ~dec.ok
        THEN [err |-> "Base64DecodeError",
              panic |-> ab # Nil /\ AccessorPanics(Deref(ab), nilSafe),
              bytes |-> <<>>]
        ELSE IF ab = Nil THEN [err |-> "NoActiveBlockError"] @@ none
        ELSE [err |-> "", panic |-> FALSE, bytes |-> dec.bytes]

validate(params, ab, nilSafe) ==
    LET dec == Base64Decode(params[1])
        none == [panic |-> FALSE, bytes |-> <<>>]
    IN  IF ~validateChunk(params, 1) THEN [err |-> "LineFormatError"] @@ none
        ELSE IF ab = Nil THEN [err |-> "NoActiveBlockError"] @@ none
        ELSE IF ~dec.ok
        THEN [err |-> "Base64DecodeError",
              panic |-> AccessorPanics(Deref(ab), nilSafe), bytes |-> <<>>]
        ELSE [err |-> "", panic |-> FALSE, bytes |-> dec.bytes]

\* the part the five accumulation handlers share: validate the line, then
\* proto.Unmarshal the decoded bytes
Decoded(params, ab, nilSafe) ==
    LET v == validate(params, ab, nilSafe)
        m == ProtoUnmarshal(v.bytes)
    IN  IF v.err # "" THEN [err |-> v.err, panic |-> v.panic, msg |-> <<>>]
        ELSE IF ~m.ok
        THEN [err |-> "PayloadSchemaError",
              panic |-> AccessorPanics(Deref(ab), nilSafe), msg |-> <<>>]
        ELSE [err |-> "", panic |-> FALSE, msg |-> m.msg]

StoreCheckpoint(b, m) == [b EXCEPT !.Checkpoint = Ptr(m)]
StoreTransaction(b, m) == [b EXCEPT !.Transactions = Append(@, m)]
StoreObjectChange(b, m) == [b EXCEPT !.ObjectChange = Ptr(m)]
StoreEvent(b, m) == [b EXCEPT !.Events = Append(@, m)]
StoreDisplayUpdate(b, m) == [b EXCEPT !.DisplayUpdates = Append(@, m)]

readCheckpointOverview(params, ab, nilSafe) ==
    LET d == Decoded(params, ab, nilSafe)
    IN  [err |-> d.err, panic |-> d.panic,
         activeBlock |-> IF d.err # "" THEN ab
                         ELSE Ptr(StoreCheckpoint(Deref(ab), d.msg))]

\* mutant: the transaction is appended before it is decoded, so a payload
\* that does not unmarshal leaves an entry behind
readTransactionBlock_AppendsFirst(params, ab, nilSafe) ==
    LET d == Decoded(params, ab, nilSafe)
    IN  [err |-> d.err, panic |-> d.panic,
         activeBlock |-> IF d.err = "PayloadSchemaError" \/ d.err = ""
                         THEN Ptr(StoreTransaction(Deref(ab), d.msg))
                         ELSE ab]

readTransactionBlock(params, ab, nilSafe) ==
    LET d == Decoded(params, ab, nilSafe)
    IN  [err |-> d.err, panic |-> d.panic,
         activeBlock |-> IF d.err # "" THEN ab
                         ELSE Ptr(StoreTransaction(Deref(ab), d.msg))]

readTransactionObjectChange(params, ab, nilSafe) ==
    LET d == Decoded(params, ab, nilSafe)
    IN  [err |-> d.err, panic |-> d.panic,
         activeBlock |-> IF d.err # "" THEN ab
                         ELSE Ptr(StoreObjectChange(Deref(ab), d.msg))]

readEvent(params, ab, nilSafe) ==
    LET d == Decoded(params, ab, nilSafe)
    IN  [err |-> d.err, panic |-> d.panic,
         activeBlock |-> IF d.err # "" THEN ab
                         ELSE Ptr(StoreEvent(Deref(ab), d.msg))]

readDisplayUpdate(params, ab, nilSafe) ==
    LET d == Decoded(params, ab, nilSafe)
    IN  [err |-> d.err, panic |-> d.panic,
         activeBlock |-> IF d.err # "" THEN ab
                         ELSE Ptr(StoreDisplayUpdate(Deref(ab), d.msg))]

\* resetActiveBlock
resetActiveBlock == [activeBlock |-> Nil, activeBlockStartTime |-> "zero"]

\* if len(r.activeBlock.Transactions) == 0
NoTransaction(b) == Len(b.Transactions) = 0

\* if r.activeBlock.GetFirehoseBlockNumber() != height
HeightMismatch(b, height) == GetFirehoseBlockNumber(b) # height

\* mutant: the transaction counter is left alone on completion
Completed_CountsBlocksOnly(b, st, encoderOk) ==
    [err |-> IF encoderOk THEN "" ELSE "EncoderError",
     panic |-> FALSE,
     log |-> "console reader node block",
     block |-> IF encoderOk THEN Ptr(Encode(b)) ELSE Nil,
     activeBlock |-> resetActiveBlock.activeBlock,
     activeBlockStartTime |-> resetActiveBlock.activeBlockStartTime,
     stats |-> [lastBlock |-> AsRef(b),
                blockRate |-> st.blockRate + 1,
                transactionRate |-> st.transactionRate]]

\* what a validated BLOCK_END leaves: the stats updated, the accumulator
\* cleared, then the block encoded
Completed(b, st, encoderOk) ==
    [err |-> IF encoderOk THEN "" ELSE "EncoderError",
     panic |-> FALSE,
     log |-> "console reader node block",
     block |-> IF encoderOk THEN Ptr(Encode(b)) ELSE Nil,
     activeBlock |-> resetActiveBlock.activeBlock,
     activeBlockStartTime |-> resetActiveBlock.activeBlockStartTime,
     stats |-> [lastBlock |-> AsRef(b),
                blockRate |-> st.blockRate + 1,
                transactionRate |-> st.transactionRate + Len(b.Transactions)]]

\* mutant: the accumulator is cleared on every way out of the handler once a
\* block is active (defer r.resetActiveBlock())
readBlockEnd_DeferredReset(params, ab, startTime, st, nilSafe, encoderOk) ==
    LET height == ParseUint(params[1])
        keep == [panic |-> FALSE, log |-> "", block |-> Nil, activeBlock |-> ab,
                 activeBlockStartTime |-> startTime, stats |-> st]
        drop == [panic |-> FALSE, log |-> "", block |-> Nil,
                 activeBlock |-> resetActiveBlock.activeBlock,
                 activeBlockStartTime |-> resetActiveBlock.activeBlockStartTime,
                 stats |-> st]
        b == Deref(ab)
    IN  IF ~validateChunk(params, 1) THEN [err |-> "LineFormatError"] @@ keep
        ELSE IF ~height.ok THEN [err |-> "FieldParseError"] @@ keep
        ELSE IF ab = Nil THEN [err |-> "NoActiveBlockError"] @@ keep
        ELSE IF AccessorPanics(b, nilSafe)
        THEN [err |-> "", panic |-> TRUE, log |-> "", block |-> Nil,
              activeBlock |-> ab, activeBlockStartTime |-> startTime, stats |-> st]
        ELSE IF HeightMismatch(b, height.val)
        THEN [err |-> "SequenceMismatchError"] @@ drop
        ELSE IF NoTransaction(b) THEN [err |-> "EmptyBlockError"] @@ drop
        ELSE Completed(b, st, encoderOk)

\* encoderOk: whether the encoder collaborator accepts the block
readBlockEnd(params, ab, startTime, st, nilSafe, encoderOk) ==
    LET height == ParseUint(params[1])
        keep == [panic |-> FALSE, log |-> "", block |-> Nil, activeBlock |-> ab,
                 activeBlockStartTime |-> startTime, stats |-> st]
        b == Deref(ab)
    IN  IF ~validateChunk(params, 1) THEN [err |-> "LineFormatError"] @@ keep
        ELSE IF ~height.ok THEN [err |-> "FieldParseError"] @@ keep
        ELSE IF ab = Nil THEN [err |-> "NoActiveBlockError"] @@ keep
        ELSE IF AccessorPanics(b, nilSafe)
        THEN [err |-> "", panic |-> TRUE, log |-> "", block |-> Nil,
              activeBlock |-> ab, activeBlockStartTime |-> startTime, stats |-> st]
        ELSE IF HeightMismatch(b, height.val)
        THEN [err |-> "SequenceMismatchError"] @@ keep
        ELSE IF NoTransaction(b) THEN [err |-> "EmptyBlockError"] @@ keep
        ELSE Completed(b, st, encoderOk)


(***************************************************************************)
(* ReadBlock and the loop of next(): one action per line taken from the    *)
(* channel, by the branch the line takes.                                  *)
(***************************************************************************)
\* the slice line[len(LogPrefix)+1:] is within the line
Sliceable(l) == Len(l) >= Len(LogPrefix) + 1

\* tokens := strings.Split(line[len(LogPrefix)+1:], " ")
Tokenize(l) == Split(SliceFrom(l, Len(LogPrefix) + 1), Sp)

\* what the head of the loop computes from a line, tabulated once per line
Scan ==
    [l \in Lines |->
        [prefix |-> HasPrefix(l, LogPrefix),
         sliceable |-> Sliceable(l),
         tokens |-> IF HasPrefix(l, LogPrefix) /\ Sliceable(l)
                    THEN Tokenize(l) ELSE <<>>]]

Tokens(l) == Scan[l].tokens

\* the line is split into a command word and at least one parameter
Tokenized(l) == Scan[l].prefix /\ Scan[l].sliceable /\ Len(Tokens(l)) >= 2

Command(l) == Tokens(l)[1]
Params(l) == Tail(Tokens(l))

\* the loop takes the next line from the channel
Take(l) ==
    /\ pc = "reading"
    /\ ~closed
    /\ stats.blockRate < MaxBlocks
    /\ line' = l

\* ReadBlock returns res to its caller
Return(res) ==
    /\ pc' = "idle"
    /\ out' = res
    /\ failed' = (failed \/ (audit /\ res.kind = "error"))
    /\ UNCHANGED <<audit, reporterVars>>

Continue ==
    /\ pc' = "reading"
    /\ out' = out
    /\ UNCHANGED <<audit, failed, reporterVars>>

Panic ==
    /\ pc' = "panicked"
    /\ out' = out
    /\ UNCHANGED <<audit, failed, reporterVars>>

\* the caller invokes ReadBlock
ReadBlock ==
    /\ pc = "idle"
    /\ pc' = "reading"
    /\ out' = NoResult
    /\ line' = <<>>
    /\ log' = ""
    /\ cycle' = IF activeBlock = Nil THEN <<>> ELSE cycle
    /\ UNCHANGED <<closed, reader, audit, failed, reporterVars>>

\* the producer has closed the lines channel (now or earlier) and the range
\* over it ends: return nil, io.EOF
NextEOF ==
    /\ pc = "reading"
    /\ closed' = TRUE
    /\ Return(EOFResult)
    /\ log' = "lines channel has been closed"
    /\ UNCHANGED <<line, reader, cycle>>

\* if !strings.HasPrefix(line, LogPrefix) { continue }
NextNoPrefix(l) ==
    /\ Take(l)
    /\ ~Scan[l].prefix
    /\ Continue
    /\ log' = ""
    /\ UNCHANGED <<closed, reader, cycle>>

\* line[len(LogPrefix)+1:] on a line that is the bare prefix
NextSlicePanic(l) ==
    /\ Take(l)
    /\ Scan[l].prefix
    /\ ~Scan[l].sliceable
    /\ Panic
    /\ log' = ""
    /\ UNCHANGED <<closed, reader, cycle>>

\* if len(tokens) < 2 { return nil, fmt.Errorf(...) }
NextTooFewTokens(l) ==
    /\ Take(l)
    /\ Scan[l].prefix
    /\ Scan[l].sliceable
    /\ Len(Tokens(l)) < 2
    /\ Return(ErrResult("LineFormatError"))
    /\ log' = ""
    /\ UNCHANGED <<closed, reader, cycle>>

\* if !r.initRead { if tokens[0] == LogInit { readInit } ... continue }
NextPreInitInit(l) ==
    /\ Take(l)
    /\ Tokenized(l)
    /\ ~initRead
    /\ Command(l) = LogInit
    /\ LET r == readInit(Params(l), chainID)
       IN  /\ initRead' = r.initRead
           /\ chainID' = r.chainID
           /\ IF r.err # "" THEN Return(ErrResult(r.err)) /\ log' = ""
              ELSE Continue /\ log' = "initialized console reader correclty"
    /\ UNCHANGED <<closed, activeBlock, activeBlockStartTime, stats, cycle>>

NextPreInitSkip(l) ==
    /\ Take(l)
    /\ Tokenized(l)
    /\ ~initRead
    /\ Command(l) # LogInit
    /\ Continue
    /\ log' = "received Firehose log line but we did not see 'FIRE INIT' yet, skipping"
    /\ UNCHANGED <<closed, reader, cycle>>

\* the switch cases of the five accumulation commands
Dispatch(cmd, params, ab, nilSafe) ==
    IF cmd = LogCheckpoint THEN readCheckpointOverview(params, ab, nilSafe)
    ELSE IF cmd = LogTrx THEN readTransactionBlock(params, ab, nilSafe)
    ELSE IF cmd = LogObjChange THEN readTransactionObjectChange(params, ab, nilSafe)
    ELSE IF cmd = LogEvent THEN readEvent(params, ab, nilSafe)
    ELSE readDisplayUpdate(params, ab, nilSafe)

NextAccumulate(l) ==
    /\ Take(l)
    /\ Tokenized(l)
    /\ initRead
    /\ Command(l) \in AccumulationCommands
    /\ \E nilSafe \in BOOLEAN :
          LET r == Dispatch(Command(l), Params(l), activeBlock, nilSafe)
          IN  /\ activeBlock' = r.activeBlock
              /\ IF r.panic THEN Panic /\ cycle' = cycle
                 ELSE IF r.err # "" THEN Return(ErrResult(r.err)) /\ cycle' = cycle
                 ELSE /\ Len(cycle) < MaxCycle
                      /\ Continue
                      /\ cycle' = Append(cycle, l)
    /\ log' = ""
    /\ UNCHANGED <<closed, initRead, chainID, activeBlockStartTime, stats>>

\* mutant: BLOCK_START is dispatched whether or not the handshake was seen
NextBlockStart_BeforeInit(l) ==
    /\ Take(l)
    /\ Tokenized(l)
    /\ Command(l) = LogBlockStart
    /\ LET r == readBlockStart(Params(l), activeBlock, activeBlockStartTime)
       IN  /\ activeBlock' = r.activeBlock
           /\ activeBlockStartTime' = r.activeBlockStartTime
           /\ log' = r.log
           /\ IF r.panic THEN Panic /\ cycle' = cycle
              ELSE IF r.err # "" THEN Return(ErrResult(r.err)) /\ cycle' = cycle
              ELSE Continue /\ cycle' = <<l>>
    /\ UNCHANGED <<closed, initRead, chainID, stats>>

NextBlockStart(l) ==
    /\ Take(l)
    /\ Tokenized(l)
    /\ initRead
    /\ Command(l) = LogBlockStart
    /\ LET r == readBlockStart(Params(l), activeBlock, activeBlockStartTime)
       IN  /\ activeBlock' = r.activeBlock
           /\ activeBlockStartTime' = r.activeBlockStartTime
           /\ log' = r.log
           /\ IF r.panic THEN Panic /\ cycle' = cycle
              ELSE IF r.err # "" THEN Return(ErrResult(r.err)) /\ cycle' = cycle
              ELSE Continue /\ cycle' = <<l>>
    /\ UNCHANGED <<closed, initRead, chainID, stats>>

NextBlockEnd(l) ==
    /\ Take(l)
    /\ Tokenized(l)
    /\ initRead
    /\ Command(l) = LogBlockEnd
    /\ \E nilSafe \in BOOLEAN, encoderOk \in BOOLEAN :
          LET r == readBlockEnd(Params(l), activeBlock, activeBlockStartTime,
                                stats, nilSafe, encoderOk)
          IN  /\ activeBlock' = r.activeBlock
              /\ activeBlockStartTime' = r.activeBlockStartTime
              /\ stats' = r.stats
              /\ log' = r.log
              /\ IF r.panic THEN Panic
                 ELSE IF r.err # "" THEN Return(ErrResult(r.err))
                 ELSE Return(BlockResult(Deref(r.block)))
    /\ UNCHANGED <<closed, initRead, chainID, cycle>>

\* mutant: a later INIT line falls through to the default case
NextInitAgain_Skipped(l) ==
    /\ Take(l)
    /\ Tokenized(l)
    /\ initRead
    /\ Command(l) = LogInit
    /\ Continue
    /\ log' = "skipping unknown firehose log line"
    /\ UNCHANGED <<closed, reader, cycle>>

\* case LogInit: err = fmt.Errorf("received INIT line while one has already been read")
NextInitAgain(l) ==
    /\ Take(l)
    /\ Tokenized(l)
    /\ initRead
    /\ Command(l) = LogInit
    /\ Return(ErrResult("DuplicateHandshakeError"))
    /\ log' = ""
    /\ UNCHANGED <<closed, reader, cycle>>

\* default: ... continue
NextUnknown(l) ==
    /\ Take(l)
    /\ Tokenized(l)
    /\ initRead
    /\ Command(l) \notin AccumulationCommands \cup {LogBlockStart, LogBlockEnd, LogInit}
    /\ Continue
    /\ log' = "skipping unknown firehose log line"
    /\ UNCHANGED <<closed, reader, cycle>>

Next ==
    \/ ReadBlock
    \/ NextEOF
    \/ \E l \in Lines : NextNoPrefix(l)
    \/ \E l \in Lines : NextSlicePanic(l)
    \/ \E l \in Lines : NextTooFewTokens(l)
    \/ \E l \in Lines : NextPreInitInit(l)
    \/ \E l \in Lines : NextPreInitSkip(l)
    \/ \E l \in Lines : NextAccumulate(l)
    \/ \E l \in Lines : NextBlockStart(l)
    \/ \E l \in Lines : NextBlockEnd(l)
    \/ \E l \in Lines : NextInitAgain(l)
    \/ \E l \in Lines : NextUnknown(l)

Spec == Init /\ [][Next]_vars

\* the same reader, with the errors ReadBlock returns kept on record
ErrorInit ==
    /\ ReaderInit
    /\ audit = TRUE
    /\ StartedReporter

ErrorSpec == ErrorInit /\ [][Next]_vars

TypeOK ==
    /\ closed \in BOOLEAN
    /\ pc \in {"idle", "reading", "panicked"}
    /\ out.kind \in {"none", "block", "eof", "error"}
    /\ initRead \in BOOLEAN
    /\ Len(activeBlock) <= 1
    /\ activeBlockStartTime \in {"zero", "set"}
    /\ stats.blockRate \in 0..MaxBlocks
    /\ Len(cycle) <= MaxCycle
    /\ audit \in BOOLEAN
    /\ failed \in BOOLEAN
    /\ audit \/ ~failed
    /\ Len(cancelPeriodicLogger) <= 1
    /\ ctxDone \in BOOLEAN
    /\ goroutine.pc \in {"none", "select", "fields", "returned"}
    /\ Len(snapshot) <= 1
    /\ Len(statsWrite) <= 1

(***************************************************************************)
(* The periodic reporter of console_stats.go, with the one place of the    *)
(* reader that writes what it reads: the stats update of readBlockEnd.     *)
(* The reporter goroutine and the parsing thread share stats.lastBlock     *)
(* with no lock and no atomic, so the two fields of the reference are      *)
(* written, and read, one at a time.                                       *)
(***************************************************************************)
\* what no operation of console_stats.go touches
parser ==
    <<closed, line, out, initRead, chainID, activeBlock, activeBlockStartTime,
      log, cycle, audit, failed>>

\* newConsoleReaderStats(): cancelPeriodicLogger is nil, no goroutine runs
StatsInit ==
    /\ ReaderInit
    /\ audit = FALSE
    /\ cancelPeriodicLogger = Nil
    /\ ctxDone = FALSE
    /\ goroutine = NoGoroutine
    /\ snapshot = Nil
    /\ statsWrite = Nil
    /\ stopCalls = 0

\* ctx, s.cancelPeriodicLogger = context.WithCancel(ctx); go func() {...}()
\* NewConsoleReader is its one caller, once per stats object
StartPeriodicLogToZap ==
    /\ cancelPeriodicLogger = Nil
    /\ cancelPeriodicLogger' = Ptr("cancel")
    /\ goroutine' = Waiting
    /\ UNCHANGED <<pc, stats, ctxDone, snapshot, statsWrite, stopCalls, parser>>

\* mutant: the cancel function is called without the nil test
StopPeriodicLogToZap_NoNilCheck ==
    /\ stopCalls < MaxStops
    /\ stopCalls' = stopCalls + 1
    /\ IF cancelPeriodicLogger = Nil
       THEN pc' = "panicked" /\ ctxDone' = ctxDone
       ELSE pc' = pc /\ ctxDone' = TRUE
    /\ UNCHANGED <<stats, cancelPeriodicLogger, goroutine, snapshot,
                   statsWrite, parser>>

\* if s.cancelPeriodicLogger != nil { s.cancelPeriodicLogger() }
StopPeriodicLogToZap ==
    /\ stopCalls < MaxStops
    /\ stopCalls' = stopCalls + 1
    /\ ctxDone' = IF cancelPeriodicLogger # Nil THEN TRUE ELSE ctxDone
    /\ UNCHANGED <<pc, stats, cancelPeriodicLogger, goroutine, snapshot,
                   statsWrite, parser>>

\* case <-ticker.C: s.ZapFields() up to zap.Uint64("last_block_num", ...)
TickFields ==
    /\ goroutine.pc = "select"
    /\ goroutine' = [pc |-> "fields", num |-> stats.lastBlock.Num]
    /\ UNCHANGED <<pc, stats, cancelPeriodicLogger, ctxDone, snapshot,
                   statsWrite, stopCalls, parser>>

\* zap.String("last_block_id", s.lastBlock.Id), then logger.Info(...)
TickLog ==
    /\ goroutine.pc = "fields"
    /\ snapshot' = Ptr([Num |-> goroutine.num, Id |-> stats.lastBlock.Id])
    /\ goroutine' = Waiting
    /\ UNCHANGED <<pc, stats, cancelPeriodicLogger, ctxDone, statsWrite,
                   stopCalls, parser>>

\* case <-ctx.Done(): return
ReporterReturn ==
    /\ goroutine.pc = "select"
    /\ ctxDone
    /\ goroutine' = [pc |-> "returned", num |-> 0]
    /\ UNCHANGED <<pc, stats, cancelPeriodicLogger, ctxDone, snapshot,
                   statsWrite, stopCalls, parser>>

\* the message a payload decodes to
Payload(p) == ProtoUnmarshal(Base64Decode(p).bytes).msg

\* the blocks the parsing thread completes while the reporter runs: one
\* checkpoint, one transaction
CompletedBlocks ==
    {[EmptyCheckpointData EXCEPT !.Checkpoint = Ptr(Payload(c)),
                                 !.Transactions = <<Payload(PayA)>>] :
        c \in {CkptA, CkptB}}

\* readBlockEnd: r.stats.blockRate.Inc(); r.stats.transactionRate.IncBy(...);
\* the assignment r.stats.lastBlock = r.activeBlock.AsRef() begins
StatsUpdate(b) ==
    /\ statsWrite = Nil
    /\ stats.blockRate < MaxCompleted
    /\ stats' = [stats EXCEPT !.blockRate = @ + 1,
                              !.transactionRate = @ + Len(b.Transactions)]
    /\ statsWrite' = Ptr([ref |-> AsRef(b), num |-> FALSE, id |-> FALSE])
    /\ UNCHANGED <<pc, cancelPeriodicLogger, ctxDone, goroutine, snapshot,
                   stopCalls, parser>>

\* the assignment in progress once one more field has been stored
Stored(w) == IF w.num /\ w.id THEN Nil ELSE Ptr(w)

\* the store of lastBlock.Num
WriteLastBlockNum ==
    /\ statsWrite # Nil
    /\ ~Deref(statsWrite).num
    /\ stats' = [stats EXCEPT !.lastBlock.Num = Deref(statsWrite).ref.Num]
    /\ statsWrite' = Stored([Deref(statsWrite) EXCEPT !.num = TRUE])
    /\ UNCHANGED <<pc, cancelPeriodicLogger, ctxDone, goroutine, snapshot,
                   stopCalls, parser>>

\* the store of lastBlock.Id
WriteLastBlockId ==
    /\ statsWrite # Nil
    /\ ~Deref(statsWrite).id
    /\ stats' = [stats EXCEPT !.lastBlock.Id = Deref(statsWrite).ref.Id]
    /\ statsWrite' = Stored([Deref(statsWrite) EXCEPT !.id = TRUE])
    /\ UNCHANGED <<pc, cancelPeriodicLogger, ctxDone, goroutine, snapshot,
                   stopCalls, parser>>

StatsNext ==
    \/ StartPeriodicLogToZap
    \/ StopPeriodicLogToZap
    \/ TickFields
    \/ TickLog
    \/ ReporterReturn
    \/ \E b \in CompletedBlocks : StatsUpdate(b)
    \/ WriteLastBlockNum
    \/ WriteLastBlockId

StatsSpec == StatsInit /\ [][StatsNext]_vars

(***************************************************************************)
(* Vocabulary of the properties.  Lines are named by their text, not by    *)
(* what the reader's tokenizer makes of them.                              *)
(***************************************************************************)
BlockStartLine(h) == FireLine(<<LogBlockStart, h>>)
BlockEndLine(h) == FireLine(<<LogBlockEnd, h>>)
TrxLine(p) == FireLine(<<LogTrx, p>>)

\* the number a height token denotes
HeightOf(h) == IF h = <<"0">> THEN 0 ELSE 1

\* the messages the payloads encode
MessageOf(p) ==
    IF p = PayA THEN [f \in {1} |-> 1]
    ELSE IF p = PayB THEN [f \in {1} |-> 2]
    ELSE IF p = CkptA THEN [f \in {1, 2} |-> IF f = 1 THEN 0 ELSE 5]
    ELSE [f \in {1, 2} |-> IF f = 1 THEN 1 ELSE 6]

GoodPayloads == {PayA, PayB, CkptA, CkptB}

\* the well-formed lines of one accumulation command: marker, command, one
\* base64 payload of a message
AccumulationLine(c) == {FireLine(<<c, p>>) : p \in GoodPayloads}

\* every line of Lines made of the marker, an accumulation command and exactly
\* one parameter, whatever the parameter holds
OneParamAccumulationLines ==
    {FireLine(<<c, p>>) :
        c \in AccumulationCommands, p \in GoodPayloads \cup {BadProto, BadB64}}
    \cap Lines

\* lines with the marker, a command word other than INIT and at least one
\* parameter
NonInitCommandLines ==
    BlockLines \cup RejectedLines \cup {FireLine(<<<<"P", "I", "N", "G">>, <<"1">>>>)}

\* INIT lines with at least one parameter
InitCommandLines == InitLines

\* the line does not begin with the four characters FIRE
LacksMarker(l) ==
    ~(Len(l) >= 4 /\ l[1] = "F" /\ l[2] = "I" /\ l[3] = "R" /\ l[4] = "E")

\* this step is an iteration of the loop of next() on line l
Took(l) == pc = "reading" /\ line' = l /\ out'.kind # "eof"

\* the accumulator a run of accepted lines builds, line by line
RECURSIVE CycleData(_)
CycleData(c) ==
    IF Len(c) <= 1 THEN EmptyCheckpointData
    ELSE LET before == CycleData(SubSeq(c, 1, Len(c) - 1))
             l == c[Len(c)]
             m == MessageOf(CHOOSE p \in GoodPayloads :
                                \E cmd \in AccumulationCommands : l = FireLine(<<cmd, p>>))
         IN  IF l \in AccumulationLine(LogCheckpoint)
             THEN [before EXCEPT !.Checkpoint = <<m>>]
             ELSE IF l \in AccumulationLine(LogTrx)
             THEN [before EXCEPT !.Transactions = Append(@, m)]
             ELSE IF l \in AccumulationLine(LogObjChange)
             THEN [before EXCEPT !.ObjectChange = <<m>>]
             ELSE IF l \in AccumulationLine(LogEvent)
             THEN [before EXCEPT !.Events = Append(@, m)]
             ELSE [before EXCEPT !.DisplayUpdates = Append(@, m)]

\* the block ReadBlock has just returned, as the accumulator it was built from
ReturnedData == Deref(out.block).Payload

(***************************************************************************)
(* C1.  After the handshake, the lines BLOCK_START(h), TRX(T1) .. TRX(Tn), *)
(* BLOCK_END(h), n >= 1, make ReadBlock return one block whose             *)
(* transactions are T1 .. Tn in arrival order.                             *)
(* Stated for the reader that has just handled BLOCK_END(h) with exactly   *)
(* those lines accepted since BLOCK_START(h), the encoder accepting.       *)
(***************************************************************************)
TrxOnlyCycle(h) ==
    /\ Len(cycle) >= 2
    /\ cycle[1] = BlockStartLine(h)
    /\ \A k \in 2..Len(cycle) : cycle[k] \in {TrxLine(PayA), TrxLine(PayB)}

C1_RoundTrip ==
    \A h \in StartHeights :
        ( /\ pc \in {"idle", "panicked"}
          /\ line = BlockEndLine(h)
          /\ TrxOnlyCycle(h)
          /\ out.err # "EncoderError" )
        => /\ pc = "idle"
           /\ out.kind = "block"
           /\ ReturnedData.Transactions =
                 [k \in 1..(Len(cycle) - 1) |->
                     IF cycle[k + 1] = TrxLine(PayA) THEN MessageOf(PayA)
                     ELSE MessageOf(PayB)]

C1_Input ==
    /\ line = BlockEndLine(<<"1">>)
    /\ cycle = <<BlockStartLine(<<"1">>), TrxLine(PayA), TrxLine(PayB)>>

(***************************************************************************)
(* C2.  After the handshake, BLOCK_END(h) returns the block if and only if *)
(* a block is active, the height it tracks (the one its BLOCK_START set)   *)
(* equals h and it has a transaction; with another tracked height the call *)
(* fails with the sequence-mismatch error, with the right height and no    *)
(* transaction with the empty-block error.  A refusal by the encoder is    *)
(* not held against the statement.                                         *)
(***************************************************************************)
HasTransactions == Len(Deref(activeBlock).Transactions) > 0

\* the height of the BLOCK_START that opened the active block
StartedHeight ==
    HeightOf(CHOOSE h \in StartHeights : cycle[1] = BlockStartLine(h))

C2_BlockEndStep(h) ==
    LET n == HeightOf(h)
        returned == pc' = "idle" /\ out'.kind = "block"
        fails(e) == pc' = "idle" /\ out' = ErrResult(e)
    IN  /\ returned =>
              activeBlock # Nil /\ StartedHeight = n /\ HasTransactions
        /\ (activeBlock # Nil /\ StartedHeight = n /\ HasTransactions) =>
              returned \/ fails("EncoderError")
        /\ (activeBlock # Nil /\ StartedHeight # n) =>
              fails("SequenceMismatchError")
        /\ (activeBlock # Nil /\ StartedHeight = n /\ ~HasTransactions) =>
              fails("EmptyBlockError")

C2_BlockEnd ==
    [][\A h \in Heights :
          (initRead /\ Took(BlockEndLine(h))) => C2_BlockEndStep(h)]_vars

\* BLOCK_END(1) has just been handled for a block started at height 1 whose
\* checkpoint carries sequence number 0
C2_Input ==
    /\ line = BlockEndLine(<<"1">>)
    /\ cycle = <<BlockStartLine(<<"1">>), FireLine(<<LogCheckpoint, CkptA>>),
                 TrxLine(PayA)>>
    /\ out = ErrResult("SequenceMismatchError")

(***************************************************************************)
(* C3.  As claimed: the active block appears only on BLOCK_START, and      *)
(* disappears only on a BLOCK_END whose ReadBlock call returns a block.    *)
(***************************************************************************)
IsBlockStartLine(l) == \E h \in StartHeights : l = BlockStartLine(h)
IsBlockEndLine(l) == \E h \in Heights : l = BlockEndLine(h)
IsAccumulationLine(l) == \E c \in AccumulationCommands : l \in AccumulationLine(c)

C3_Created ==
    (activeBlock = Nil /\ activeBlock' # Nil) =>
        pc = "reading" /\ IsBlockStartLine(line')

C3_Replaced ==
    (activeBlock # Nil /\ activeBlock' # Nil /\ activeBlock' # activeBlock) =>
        /\ pc = "reading"
        /\ \/ IsBlockStartLine(line') /\ activeBlock' = Ptr(EmptyCheckpointData)
           \/ IsAccumulationLine(line')

C3_OnlyReturnedBlockEndClears ==
    [][ /\ Len(activeBlock') <= 1
        /\ C3_Created
        /\ C3_Replaced
        /\ (activeBlock # Nil /\ activeBlock' = Nil) =>
              /\ pc = "reading" /\ IsBlockEndLine(line')
              /\ out'.kind = "block" ]_vars

(***************************************************************************)
(* C3, amended.  The active block disappears only on a BLOCK_END that      *)
(* passed validation: its call returns the block, or the encoder's error   *)
(* (the accumulator is cleared before the block goes to the encoder).  A   *)
(* BLOCK_END rejected by validation never removes it.                      *)
(***************************************************************************)
C3_ValidatedBlockEndClears ==
    [][ /\ Len(activeBlock') <= 1
        /\ C3_Created
        /\ C3_Replaced
        /\ (activeBlock # Nil /\ activeBlock' = Nil) =>
              /\ pc = "reading" /\ IsBlockEndLine(line')
              /\ out'.kind = "block" \/ out'.err = "EncoderError"
        /\ (activeBlock # Nil /\ pc = "reading" /\ IsBlockEndLine(line')
            /\ out'.kind = "error" /\ out'.err # "EncoderError") =>
              activeBlock' = activeBlock ]_vars

C3_Witness ==
    /\ pc = "idle"
    /\ IsBlockEndLine(line)
    /\ out.err = "EncoderError"
    /\ activeBlock = Nil
    /\ Len(cycle) >= 2

(***************************************************************************)
(* C4.  When the lines channel is closed, ReadBlock returns the clean      *)
(* end-of-stream signal only if no block is active; with a block active it *)
(* returns an error that is not the end-of-stream signal.                  *)
(***************************************************************************)
C4_EOFOnlyWithoutActiveBlock ==
    (pc = "idle" /\ closed /\ out.kind = "eof") => activeBlock = Nil

(***************************************************************************)
(* C5.  Before the handshake, a line that carries a command other than     *)
(* INIT is skipped: no error, no active block, no change of the handshake  *)
(* state nor of anything else the reader holds, and no block.              *)
(***************************************************************************)
C5_SkippedBeforeInit ==
    [][\A l \in NonInitCommandLines :
          (~initRead /\ Took(l)) =>
              /\ pc' = "reading"
              /\ out' = NoResult
              /\ reader' = reader
              /\ activeBlock' = Nil
              /\ ~initRead']_vars

C5_Witness ==
    /\ ~initRead
    /\ pc = "reading"
    /\ line = BlockStartLine(<<"1">>)
    /\ activeBlock = Nil

(***************************************************************************)
(* C6.  One ReadBlock call yields one whole block: when the call has       *)
(* consumed a block cycle BLOCK_START(h), accumulation lines with at least *)
(* one TRX (any CHECKPOINT among them of height h), BLOCK_END(h), it       *)
(* returns, on that BLOCK_END, the block made of exactly those lines.      *)
(***************************************************************************)
CheckpointOfHeight(h) == IF h = <<"0">> THEN CkptA ELSE CkptB

WellFormedCycle(h) ==
    /\ Len(cycle) >= 2
    /\ cycle[1] = BlockStartLine(h)
    /\ \E k \in 2..Len(cycle) : cycle[k] \in AccumulationLine(LogTrx)
    /\ \A k \in 2..Len(cycle) :
          cycle[k] \in AccumulationLine(LogCheckpoint) =>
              cycle[k] = FireLine(<<LogCheckpoint, CheckpointOfHeight(h)>>)

C6_OneBlockPerCycle ==
    \A h \in StartHeights :
        ( /\ pc \in {"idle", "panicked"}
          /\ line = BlockEndLine(h)
          /\ WellFormedCycle(h)
          /\ out.err # "EncoderError" )
        => /\ pc = "idle"
           /\ out.kind = "block"
           /\ ReturnedData = CycleData(cycle)

C8_DuplicateHandshake ==
    [][ initRead =>
          /\ initRead'
          /\ chainID' = chainID
          /\ \A l \in InitCommandLines :
                Took(l) =>
                    /\ pc' = "idle"
                    /\ out' = ErrResult("DuplicateHandshakeError")
                    /\ reader' = reader ]_vars

C8_Witness ==
    /\ initRead
    /\ chainID = <<"X">>
    /\ pc = "idle"
    /\ line \in InitCommandLines
    /\ out = ErrResult("DuplicateHandshakeError")

(***************************************************************************)
(* C9.  After the handshake, a CHECKPOINT, TRX, OBJ_CHANGE, EVT or         *)
(* DSP_UPDATE line (the command and its one parameter) received while no   *)
(* block is active makes ReadBlock return the no-active-block error, and   *)
(* no accumulator is created.                                              *)
(***************************************************************************)
C9_NoActiveBlock ==
    [][\A l \in OneParamAccumulationLines :
          (initRead /\ activeBlock = Nil /\ Took(l)) =>
              /\ pc' = "idle"
              /\ out' = ErrResult("NoActiveBlockError")
              /\ activeBlock' = Nil]_vars

C9_Witness ==
    /\ initRead
    /\ pc = "idle"
    /\ line = FireLine(<<LogDisplayUpdate, PayA>>)
    /\ out = ErrResult("NoActiveBlockError")
    /\ activeBlock = Nil

(***************************************************************************)
(* C10.  In every state, a line without the protocol marker is consumed    *)
(* without an error and leaves the handshake state, the active block and   *)
(* the stats counters as they were.                                        *)
(***************************************************************************)
C10_NonProtocolLine ==
    [][\A l \in Lines :
          (LacksMarker(l) /\ Took(l)) =>
              /\ pc' = "reading"
              /\ out' = NoResult
              /\ reader' = reader]_vars

C10_Witness ==
    /\ pc = "reading"
    /\ LacksMarker(line)
    /\ line # <<>>
    /\ initRead
    /\ activeBlock # Nil
    /\ Len(Deref(activeBlock).Transactions) > 0
(***************************************************************************)
(* C11.  Before the handshake, an INIT line is accepted only with exactly  *)
(* 6 or 7 parameters; with any other number of parameters ReadBlock        *)
(* returns the line-format error and the reader stays as it was, the       *)
(* handshake not done.                                                     *)
(***************************************************************************)
\* the number of parameters of an INIT line, counted on its text
InitParamCount(l) == Cardinality({k \in 1..Len(l) : l[k] = Sp}) - 1

AllInitLines == InitLines \cup {FireLine(<<LogInit>>)}

C11_InitParameterCount ==
    [][\A l \in AllInitLines :
          (~initRead /\ Took(l)) =>
              /\ initRead' => InitParamCount(l) \in {6, 7}
              /\ InitParamCount(l) \notin {6, 7} =>
                    /\ pc' = "idle"
                    /\ out' = ErrResult("LineFormatError")
                    /\ reader' = reader]_vars

C11_Witness ==
    /\ pc = "idle"
    /\ line \in InitLines
    /\ InitParamCount(line) = 8
    /\ out = ErrResult("LineFormatError")
    /\ ~initRead

(***************************************************************************)
(* C12.  Before the handshake, an INIT line with a valid number of         *)
(* parameters whose major version is a number other than 0 fails with the  *)
(* protocol-version error, whether the minor version is a number or not,   *)
(* and the handshake stays undone.                                         *)
(***************************************************************************)
MajorOneInitLines ==
    {FireLine(<<LogInit, <<"c">>, <<"v">>, <<"f">>, <<"1">>, m, <<"X">>>>) :
        m \in {<<"2">>, <<"x">>}}

C12_MajorVersion ==
    [][\A l \in MajorOneInitLines :
          (~initRead /\ Took(l)) =>
              /\ pc' = "idle"
              /\ out' = ErrResult("ProtocolVersionError")
              /\ reader' = reader]_vars

C12_Witness ==
    /\ pc = "idle"
    /\ line = FireLine(<<LogInit, <<"c">>, <<"v">>, <<"f">>, <<"1">>, <<"x">>, <<"X">>>>)
    /\ out = ErrResult("ProtocolVersionError")
    /\ ~initRead

(***************************************************************************)
(* C15.  Before the handshake, an INIT line with a valid number of         *)
(* parameters and major version 0 whose minor version is not an unsigned   *)
(* integer is rejected with the field-parse error, and the handshake stays *)
(* undone.                                                                 *)
(***************************************************************************)
BadMinorInitLine ==
    FireLine(<<LogInit, <<"c">>, <<"v">>, <<"f">>, <<"0">>, <<"x">>, <<"X">>>>)

C15_MinorVersionParsed ==
    [][(~initRead /\ Took(BadMinorInitLine)) =>
          /\ pc' = "idle"
          /\ out' = ErrResult("FieldParseError")
          /\ ~initRead']_vars

\* the handshake has just been accepted on the line whose minor version is x
C15_Input ==
    /\ pc = "reading"
    /\ line = BadMinorInitLine
    /\ initRead
    /\ log = "initialized console reader correclty"
(***************************************************************************)
(* C14.  After the handshake, BLOCK_START(h) with a valid height is always *)
(* accepted, with no block active and with a block active whatever it      *)
(* holds: no error, no crash, and the loop goes on with a fresh            *)
(* accumulator.                                                            *)
(***************************************************************************)
C14_BlockStartAccepted ==
    [][\A h \in StartHeights :
          (initRead /\ Took(BlockStartLine(h))) =>
              /\ pc' = "reading"
              /\ out' = NoResult
              /\ activeBlock' = Ptr(EmptyCheckpointData)]_vars

\* BLOCK_START has just been handled with an active block that holds a
\* transaction and no checkpoint
C14_Input ==
    /\ pc = "panicked"
    /\ IsBlockStartLine(line)
    /\ activeBlock # Nil
    /\ Deref(activeBlock).Checkpoint = Nil
    /\ Len(Deref(activeBlock).Transactions) > 0

(***************************************************************************)
(* C16.  In every state, a line that is the bare marker, the marker and a  *)
(* single space, or the marker and a command word with no parameter makes  *)
(* ReadBlock return the line-format error: it does not crash the reader    *)
(* and is not skipped.                                                     *)
(***************************************************************************)
FewTokenLines ==
    {LogPrefix, LogPrefix \o <<Sp>>, FireLine(<<LogTrx>>), FireLine(<<LogInit>>)}

C16_FewTokens ==
    [][\A l \in FewTokenLines :
          Took(l) => /\ pc' = "idle"
                     /\ out' = ErrResult("LineFormatError")]_vars

\* the loop has just taken the bare marker
C16_Input ==
    /\ pc = "panicked"
    /\ line = LogPrefix
(***************************************************************************)
(* C20.  After the handshake, a line rejected by validation leaves every   *)
(* field of the reader as it was: a BLOCK_END or BLOCK_START with a bad    *)
(* parameter count or a non-numeric height, a BLOCK_END with no active     *)
(* block, another height or no transaction, and an accumulation command    *)
(* with a bad parameter count, malformed base64 or a payload that does not *)
(* unmarshal.                                                              *)
(***************************************************************************)
ValidationErrors ==
    {"LineFormatError", "FieldParseError", "NoActiveBlockError",
     "SequenceMismatchError", "EmptyBlockError", "Base64DecodeError",
     "PayloadSchemaError"}

C20_RejectedLineKeepsState ==
    [][ /\ \A l \in RejectedLines :
              (initRead /\ Took(l)) =>
                  /\ pc' \in {"idle", "panicked"}
                  /\ pc' = "idle" =>
                        out'.kind = "error" /\ out'.err \in ValidationErrors
                  /\ reader' = reader
        /\ \A l \in BlockLines :
              (initRead /\ Took(l) /\ out'.kind = "error"
               /\ out'.err \in ValidationErrors) => reader' = reader ]_vars

C20_Witness ==
    /\ pc = "idle"
    /\ line = FireLine(<<LogTrx, BadProto>>)
    /\ out = ErrResult("PayloadSchemaError")
    /\ activeBlock # Nil
    /\ Len(Deref(activeBlock).Transactions) = 1
(***************************************************************************)
(* C17.  As claimed: once ReadBlock has returned an error, no later        *)
(* ReadBlock call on the same reader returns a block.                      *)
(***************************************************************************)
C17_ErrorIsTerminal == failed => out.kind # "block"

\* ReadBlock has just returned a block on a reader that had returned an error
C17_Input ==
    /\ pc = "idle"
    /\ failed
    /\ out.kind = "block"
    /\ ReturnedData.Checkpoint # Nil

(***************************************************************************)
(* C19.  As claimed: the block counter counts the blocks ReadBlock         *)
(* returns and the transaction counter their transactions, and nothing     *)
(* else.  Both start at 0; a step changes them if and only if it is the    *)
(* one on which ReadBlock returns a block, and then by 1 and by the        *)
(* number of transactions of that block.                                   *)
(***************************************************************************)
\* this step adds one block of n transactions to the counters
Counted(n) ==
    /\ stats'.blockRate = stats.blockRate + 1
    /\ stats'.transactionRate = stats.transactionRate + n

CountersUnchanged ==
    /\ stats'.blockRate = stats.blockRate
    /\ stats'.transactionRate = stats.transactionRate

BlockReturned == pc = "reading" /\ out'.kind = "block"

C19_CountersMatchReturned ==
    [][ IF BlockReturned
        THEN Counted(Len(ReturnedData'.Transactions))
        ELSE CountersUnchanged ]_vars

(***************************************************************************)
(* C19, amended.  The counters count the BLOCK_END lines that passed       *)
(* validation: the blocks ReadBlock returns and the blocks the encoder     *)
(* refuses, which are counted before the encoder sees them.  Nothing else  *)
(* is counted: not a TRX line when it arrives, not the transactions of a   *)
(* block replaced by a later BLOCK_START, not a BLOCK_END rejected by      *)
(* validation.                                                             *)
(***************************************************************************)
BlockRefused == pc = "reading" /\ out' = ErrResult("EncoderError")

C19_CountersMatchValidated ==
    [][ IF BlockReturned
        THEN Counted(Len(ReturnedData'.Transactions))
        ELSE IF BlockRefused
        THEN /\ IsBlockEndLine(line')
             /\ Counted(Len(Deref(activeBlock).Transactions))
        ELSE CountersUnchanged ]_vars

\* the encoder has just refused a block of one transaction, started over
\* after a first BLOCK_START whose transaction was dropped
C19_Witness ==
    /\ pc = "idle"
    /\ out = ErrResult("EncoderError")
    /\ stats.blockRate = 1
    /\ stats.transactionRate = 1
    /\ log = "console reader node block"

(***************************************************************************)
(* C13.  StopPeriodicLogToZap can always be called, whether or not the     *)
(* reporter was ever started and however often it was called before; it    *)
(* returns without an error and touches nothing but the cancellation of    *)
(* the reporter's context; called when the reporter was never started or   *)
(* has already been stopped, it leaves the reporter exactly as it was.     *)
(***************************************************************************)
StopCalled == stopCalls' = stopCalls + 1

C13_StopIdempotent ==
    [][ /\ stopCalls < MaxStops => ENABLED StopPeriodicLogToZap
        /\ StopCalled =>
              /\ pc' = pc
              /\ stats' = stats
              /\ cancelPeriodicLogger' = cancelPeriodicLogger
              /\ goroutine' = goroutine
              /\ snapshot' = snapshot
              /\ statsWrite' = statsWrite
              /\ ctxDone'
                    = (ctxDone \/ cancelPeriodicLogger # Nil)
              /\ (cancelPeriodicLogger = Nil \/ ctxDone) =>
                    ctxDone' = ctxDone ]_vars

\* the third stop of a reporter that was started, stopped, and has returned
C13_Witness ==
    /\ stopCalls = 3
    /\ cancelPeriodicLogger # Nil
    /\ ctxDone
    /\ goroutine.pc = "returned"

(***************************************************************************)
(* C18.  Every snapshot the periodic reporter logs carries a               *)
(* last_block_num and a last_block_id of one and the same completed block, *)
(* or both of the initial empty reference.                                 *)
(***************************************************************************)
CompletedRefs == {AsRef(b) : b \in CompletedBlocks}

C18_SnapshotNotTorn ==
    snapshot # Nil => Deref(snapshot) \in CompletedRefs \cup {EmptyBlockRef}

\* a snapshot with the number of one block and the id of the other
C18_Input ==
    /\ snapshot # Nil
    /\ Deref(snapshot).Num = 0
    /\ Deref(snapshot).Id = 6

====
